---- MODULE Spec2Model ----
(***************************************************************************)
(* Model of createReducerContext (src/src/reducer-context.tsx) and of      *)
(* MissingStateContextError (src/unnamed/part_000).                        *)
(*                                                                         *)
(* One reducer context is created by the factory; one Provider of it can   *)
(* be mounted, unmounted and mounted again, and a small set of consumer    *)
(* components read it through the hooks and components of the returned     *)
(* interface.  JavaScript values are tagged records so that any two of     *)
(* them can be compared.                                                   *)
(***************************************************************************)
EXTENDS Integers, Sequences, FiniteSets, TLC

(***************************************************************************)
(* Bounds                                                                  *)
(***************************************************************************)
\* the example State type is the numbers 0 .. StateMod - 1
StateMod == 4
\* dispatches per mount of the provider
MaxDispatch == 2
\* times the provider is mounted
MaxMounts == 2

(***************************************************************************)
(* JavaScript values                                                       *)
(***************************************************************************)
Undefined == [t |-> "undefined"]
Null == [t |-> "null"]
Num(n) == [t |-> "number", n |-> n]
Str(s) == [t |-> "string", s |-> s]
\* a function value; functions are compared by identity
Fn(id) == [t |-> "function", id |-> id]
Arr(items) == [t |-> "array", items |-> items]

States == {Num(n) : n \in 0 .. StateMod - 1}
\* the Provider's optional value prop
ProviderValues == {Undefined, Null, Num(0), Num(2)}
DefaultValues == {Num(1)}
DisplayNames == {Undefined, Str("Counter")}
Actions == {"inc", "reset"}
\* the component tree below the Provider: a reader that uses any one hook or
\* component of the interface, and a controller that uses useState()
Consumers == {"reader", "controller"}

\* selectors a caller passes: State => R
ScalarSelectors == {"parity", "half"}
\* selectors a caller passes: State => R extends any[]
ArraySelectors == {"bits", "pair"}
NoSelector == "none"

WholeKinds == {"useState", "useValue", "useDispatch", "Consumer"}
ScalarKinds == {"useSelectedValue", "useSelectedState", "Selector"}
ArrayKinds == {"useSelectedValues", "useSelectedStates", "Selectors"}
Kinds == WholeKinds \cup ScalarKinds \cup ArrayKinds
KindsOf(c) == IF c = "reader" THEN Kinds ELSE {"useState"}

VARIABLES
    defaultValue,   \* createReducerContext's second argument
    displayName,    \* InternalContext.displayName
    setArg,         \* history: the argument of the last displayName setter call
    provider,       \* the mounted Provider's useReducer hook: state and update queue
    prop,           \* the value prop of the Provider's last render
    mounts,         \* how many times the Provider has been mounted
    s0,             \* history: the state the current mount started with
    history,        \* history: the actions dispatched since the current mount
    consumer        \* per consumer component: what it subscribed to and rendered

vars == <<defaultValue, displayName, setArg, provider, prop, mounts, s0, history, consumer>>

(***************************************************************************)
(* The caller's reducer and selectors                                      *)
(***************************************************************************)
reducer(state, action) ==
    CASE action = "inc" -> Num((state.n + 1) % StateMod)
      [] action = "reset" -> Num(0)

\* the binary digits of n, lowest first; none for 0
RECURSIVE Bits(_)
Bits(n) == IF n = 0 THEN <<>> ELSE <<Num(n % 2)>> \o Bits(n \div 2)

selector(name, state) ==
    CASE name = "parity" -> Num(state.n % 2)
      [] name = "half" -> Num(state.n \div 2)
      [] name = "bits" -> Arr(Bits(state.n))
      [] name = "pair" -> Arr(<<Num(state.n % 2), Num(state.n \div 2)>>)

(***************************************************************************)
(* MissingStateContextError                                                *)
(***************************************************************************)
\* `${displayName}` inside a template literal
TemplateString(value) ==
    IF value.t = "undefined" THEN "undefined" ELSE value.s

\* mutant: the error is constructed without the context's name
MissingStateContextErrorUnnamed(name) ==
    [t |-> "MissingStateContextError",
     message |-> "Attempt to read value from state context '"
                 \o TemplateString(Undefined)
                 \o "', make sure that the context provider is being used and is mounted in the component tree."]

MissingStateContextError(name) ==
    [t |-> "MissingStateContextError",
     message |-> "Attempt to read value from state context '"
                 \o TemplateString(name)
                 \o "', make sure that the context provider is being used and is mounted in the component tree."]

(***************************************************************************)
(* The hook the Provider runs: useReducer(reducer, value ?? defaultValue)  *)
(***************************************************************************)
NoHook == [mounted |-> FALSE, state |-> Undefined, queue |-> <<>>, dispatch |-> Undefined]

\* mutant: value || defaultValue, which also replaces 0
LogicalOr(value, other) ==
    IF value.t \in {"undefined", "null"} \/ value = Num(0) THEN other ELSE value

NullishCoalesce(value, other) ==
    IF value.t \in {"undefined", "null"} THEN other ELSE value

\* mutant: the queued actions go through the reducer last first
RECURSIVE ApplyQueueLastFirst(_, _)
ApplyQueueLastFirst(state, queue) ==
    IF queue = <<>>
    THEN state
    ELSE ApplyQueueLastFirst(reducer(state, queue[Len(queue)]), SubSeq(queue, 1, Len(queue) - 1))

\* the queued actions go through the reducer in the order they were dispatched
RECURSIVE ApplyQueue(_, _)
ApplyQueue(state, queue) ==
    IF queue = <<>>
    THEN state
    ELSE ApplyQueue(reducer(state, Head(queue)), Tail(queue))

\* one render's call of useReducer: the first render of a mount takes its
\* initial argument and creates dispatch, a later one works off the queue
useReducer(hook, initialArg, id) ==
    IF hook.mounted
    THEN [hook EXCEPT !.state = ApplyQueue(hook.state, hook.queue), !.queue = <<>>]
    ELSE [mounted |-> TRUE, state |-> initialArg, queue |-> <<>>, dispatch |-> Fn(id)]

\* mutant: a value prop that is given replaces the state on every render
InternalHookControlled(hook, value, id) ==
    LET next == useReducer(hook, NullishCoalesce(value, defaultValue), id) IN
    IF value.t \in {"undefined", "null"} THEN next ELSE [next EXCEPT !.state = value]

InternalHook(hook, value, id) ==
    useReducer(hook, NullishCoalesce(value, defaultValue), id)

\* type ContextValue<State, Action> = [State, Dispatch<Action>]
ContextValue(hook) == Arr(<<hook.state, hook.dispatch>>)

(***************************************************************************)
(* The hooks of the interface: the internal selector each one subscribes   *)
(* with, and what it returns                                               *)
(***************************************************************************)
\* array destructuring: a missing element is undefined, the rest may be empty
At(items, i) == IF i <= Len(items) THEN items[i] ELSE Undefined
Rest(items) == IF items = <<>> THEN <<>> ELSE Tail(items)

useStateSelector(value) == value

useValueSelector(value) == At(value.items, 1)

\* mutant: ([dispatch]) => dispatch
useDispatchFirst(value) == At(value.items, 1)

useDispatchSelector(value) == At(value.items, 2)

\* mutant: ([next, dispatch]) => [next, dispatch]
useSelectedStateUnselected(sel, value) ==
    Arr(<<At(value.items, 1), At(value.items, 2)>>)

useSelectedStateSelector(sel, value) ==
    Arr(<<selector(sel, At(value.items, 1)), At(value.items, 2)>>)

\* mutant: ([next]) => next
useSelectedValueWhole(sel, value) == At(value.items, 1)

useSelectedValueSelector(sel, value) == selector(sel, At(value.items, 1))

\* mutant: ([next, dispatch]) => [...selector(next), dispatch]
useSelectedStatesDispatchLast(sel, value) ==
    Arr(selector(sel, At(value.items, 1)).items \o <<At(value.items, 2)>>)

useSelectedStatesSelector(sel, value) ==
    Arr(<<At(value.items, 2)>> \o selector(sel, At(value.items, 1)).items)

useSelectedValuesSelector(sel, value) == selector(sel, At(value.items, 1))

\* useSelectedStates' useMemo: const [dispatch, ...states] = values
useSelectedStatesResult(values) ==
    Arr(<<Arr(Rest(values.items)), At(values.items, 1)>>)

\* the hook a component of the interface calls
HookOf(kind) ==
    CASE kind = "Consumer" -> "useState"
      [] kind = "Selector" -> "useSelectedState"
      [] kind = "Selectors" -> "useSelectedStates"
      [] OTHER -> kind

InternalSelector(kind, sel, value) ==
    LET hook == HookOf(kind) IN
    CASE hook = "useState" -> useStateSelector(value)
      [] hook = "useValue" -> useValueSelector(value)
      [] hook = "useDispatch" -> useDispatchSelector(value)
      [] hook = "useSelectedState" -> useSelectedStateSelector(sel, value)
      [] hook = "useSelectedValue" -> useSelectedValueSelector(sel, value)
      [] hook = "useSelectedStates" -> useSelectedStatesSelector(sel, value)
      [] hook = "useSelectedValues" -> useSelectedValuesSelector(sel, value)

\* which subscription of the internal hooked context the hook goes through
InternalMethod(kind) ==
    LET hook == HookOf(kind) IN
    CASE hook = "useState" -> "useValue"
      [] hook \in {"useValue", "useDispatch", "useSelectedValue"} -> "useSelectedValue"
      [] OTHER -> "useSelectedValues"

HookResult(kind, values) ==
    IF HookOf(kind) = "useSelectedStates"
    THEN useSelectedStatesResult(values)
    ELSE values

\* Consumer, Selector, Selectors: const [state, setState] = hook(); children(state, setState)
ChildrenArgs(kind, out) ==
    IF kind \in {"Consumer", "Selector", "Selectors"}
    THEN Arr(<<At(out.items, 1), At(out.items, 2)>>)
    ELSE Undefined

(***************************************************************************)
(* The internal hooked context: readers, subscriptions and notifications   *)
(***************************************************************************)
NoConsumer ==
    [status |-> "unmounted", kind |-> "none", sel |-> NoSelector, values |-> Undefined,
     out |-> Undefined, children |-> Undefined, dirty |-> FALSE, last |-> "none",
     err |-> Undefined]

\* a component's render that reads the context: the internal selector picks
\* the values it subscribes to, the hook returns, a component calls children;
\* last records what the consumer went through last: its first render
\* ("mounted"), a render after a notification ("rerendered"), or a change of
\* the state that it was not notified of ("spared")
Read(kind, sel, hook, last) ==
    LET values == InternalSelector(kind, sel, ContextValue(hook))
        out == HookResult(kind, values)
    IN  [status |-> "mounted", kind |-> kind, sel |-> sel, values |-> values,
         out |-> out, children |-> ChildrenArgs(kind, out), dirty |-> FALSE,
         last |-> last, err |-> Undefined]

\* a read with no Provider above the reader throws, whatever hook reads
FailedRead(kind, sel) ==
    [NoConsumer EXCEPT !.status = "failed",
                       !.err = MissingStateContextError(displayName)]

ListChanged(a, b) ==
    \/ Len(a) # Len(b)
    \/ \E i \in 1 .. Len(a) : a[i] # b[i]

\* whether a subscriber holding prev is re-rendered when it now selects next
ShouldNotify(method, prev, next) ==
    IF method = "useSelectedValues"
    THEN ListChanged(prev.items, next.items)
    ELSE prev # next

\* the Provider has rendered: every subscriber whose selection changed is
\* marked for a re-render; a subscriber of the whole value may be marked even
\* when the pair is equal, as every render makes a new pair (those in extra)
Notify(hook, extra) ==
    [c \in Consumers |->
        LET sub == consumer[c] IN
        IF sub.status # "mounted" THEN sub
        ELSE IF \/ ShouldNotify(InternalMethod(sub.kind), sub.values,
                                InternalSelector(sub.kind, sub.sel, ContextValue(hook)))
                \/ c \in extra
             THEN [sub EXCEPT !.dirty = TRUE]
             ELSE IF ~sub.dirty /\ hook.state # provider.state
                  THEN [sub EXCEPT !.last = "spared"]
                  ELSE sub]

WholeSubscribers ==
    {c \in Consumers : consumer[c].status = "mounted"
                       /\ InternalMethod(consumer[c].kind) = "useValue"}

\* the selectors a caller may pass to a hook or component of this kind
SelectorsOf(kind) ==
    IF kind \in ScalarKinds THEN ScalarSelectors
    ELSE IF kind \in ArrayKinds THEN ArraySelectors
    ELSE {NoSelector}

\* the dispatch function a mounted consumer got from its hook, if any
DispatchOf(sub) ==
    LET hook == HookOf(sub.kind) IN
    IF sub.status # "mounted" THEN Undefined
    ELSE IF hook = "useDispatch" THEN sub.out
    ELSE IF hook \in {"useState", "useSelectedState", "useSelectedStates"}
         THEN At(sub.out.items, 2)
    ELSE Undefined

(***************************************************************************)
(* Initial state: the factory has been called, nothing is mounted          *)
(***************************************************************************)
Init ==
    /\ defaultValue \in DefaultValues
    /\ displayName = Undefined
    /\ setArg = Undefined
    /\ provider = NoHook
    /\ prop = Undefined
    /\ mounts = 0
    /\ s0 = Undefined
    /\ history = <<>>
    /\ consumer = [c \in Consumers |-> NoConsumer]

(***************************************************************************)
(* Operations                                                              *)
(***************************************************************************)
\* <Provider value={value}> mounts
MountProvider(value) ==
    /\ ~provider.mounted
    /\ mounts < MaxMounts
    /\ provider' = InternalHook(provider, value, mounts + 1)
    /\ prop' = value
    /\ mounts' = mounts + 1
    /\ s0' = provider'.state
    /\ history' = <<>>
    /\ UNCHANGED <<defaultValue, displayName, setArg, consumer>>

\* the Provider unmounts, and its subtree with it
UnmountProvider ==
    /\ provider.mounted
    /\ provider' = NoHook
    /\ prop' = Undefined
    /\ s0' = Undefined
    /\ history' = <<>>
    /\ consumer' = [c \in Consumers |->
                      IF consumer[c].status = "mounted" THEN NoConsumer ELSE consumer[c]]
    /\ UNCHANGED <<defaultValue, displayName, setArg, mounts>>

\* a consumer calls the dispatch its hook returned
Dispatch(c, action) ==
    /\ provider.mounted
    /\ DispatchOf(consumer[c]) = provider.dispatch
    /\ Len(history) < MaxDispatch
    /\ provider' = [provider EXCEPT !.queue = Append(@, action)]
    /\ history' = Append(history, action)
    /\ UNCHANGED <<defaultValue, displayName, setArg, prop, mounts, s0, consumer>>

\* the render scheduled by dispatches
RenderProvider ==
    /\ provider.mounted
    /\ provider.queue # <<>>
    /\ provider' = InternalHook(provider, prop, mounts)
    /\ \E extra \in SUBSET WholeSubscribers : consumer' = Notify(provider', extra)
    /\ UNCHANGED <<defaultValue, displayName, setArg, prop, mounts, s0, history>>

\* the parent renders the mounted Provider again with another value prop
RerenderProvider(value) ==
    /\ provider.mounted
    /\ value # prop
    /\ prop' = value
    /\ provider' = InternalHook(provider, value, mounts)
    /\ \E extra \in SUBSET WholeSubscribers : consumer' = Notify(provider', extra)
    /\ UNCHANGED <<defaultValue, displayName, setArg, mounts, s0, history>>

\* a component using a hook or component of the interface mounts
MountConsumer(c, kind, sel) ==
    /\ consumer[c].status # "mounted"
    /\ consumer' = [consumer EXCEPT ![c] =
                      IF provider.mounted
                      THEN Read(kind, sel, provider, "mounted")
                      ELSE FailedRead(kind, sel)]
    /\ UNCHANGED <<defaultValue, displayName, setArg, provider, prop, mounts, s0, history>>

\* a notified consumer renders again
RenderConsumer(c) ==
    /\ consumer[c].status = "mounted"
    /\ consumer[c].dirty
    /\ consumer' = [consumer EXCEPT ![c] = Read(@.kind, @.sel, provider, "rerendered")]
    /\ UNCHANGED <<defaultValue, displayName, setArg, provider, prop, mounts, s0, history>>

UnmountConsumer(c) ==
    /\ consumer[c].status = "mounted"
    /\ consumer' = [consumer EXCEPT ![c] = NoConsumer]
    /\ UNCHANGED <<defaultValue, displayName, setArg, provider, prop, mounts, s0, history>>

\* mutant: the setter does not reach the internal context
SetDisplayNameDropped(value) ==
    /\ displayName' = displayName
    /\ setArg' = value
    /\ UNCHANGED <<defaultValue, provider, prop, mounts, s0, history, consumer>>

\* set displayName(value) { InternalContext.displayName = value; }
SetDisplayName(value) ==
    /\ displayName' = value
    /\ setArg' = value
    /\ UNCHANGED <<defaultValue, provider, prop, mounts, s0, history, consumer>>

\* get displayName() { return InternalContext.displayName; }
GetDisplayName == displayName

Next ==
    \/ \E value \in ProviderValues : MountProvider(value)
    \/ UnmountProvider
    \/ \E c \in Consumers, action \in Actions : Dispatch(c, action)
    \/ RenderProvider
    \/ \E value \in ProviderValues : RerenderProvider(value)
    \/ \E c \in Consumers : \E kind \in KindsOf(c) : \E sel \in SelectorsOf(kind) : MountConsumer(c, kind, sel)
    \/ \E c \in Consumers : RenderConsumer(c)
    \/ \E c \in Consumers : UnmountConsumer(c)
    \/ \E value \in DisplayNames : SetDisplayName(value)

Spec == Init /\ [][Next]_vars

(***************************************************************************)
(* Properties                                                              *)
(***************************************************************************)
\* reducer(...reducer(reducer(s, a1), a2)..., an), written from the last action back
RECURSIVE Reduced(_, _)
Reduced(s, as) ==
    IF as = <<>>
    THEN s
    ELSE reducer(Reduced(s, SubSeq(as, 1, Len(as) - 1)), as[Len(as)])

\* the dispatched actions the Provider has rendered, and those still queued
Processed == SubSeq(history, 1, Len(history) - Len(provider.queue))
Pending == SubSeq(history, Len(history) - Len(provider.queue) + 1, Len(history))

IsMounted(c) == consumer[c].status = "mounted"
IsClean(c) == IsMounted(c) /\ ~consumer[c].dirty

\* C1: the state a mounted Provider holds is its initial state taken through
\* the reducer by the dispatched actions, in dispatch order, and nothing else:
\* at every moment it is the fold of the actions rendered so far, the queue is
\* the rest of the dispatches, and useValue() and useState()[0] return it.
C1_StateIsFoldOfDispatches ==
    provider.mounted =>
        /\ Len(provider.queue) <= Len(history)
        /\ provider.queue = Pending
        /\ provider.state = Reduced(s0, Processed)
        /\ provider.queue = <<>> => provider.state = Reduced(s0, history)
        /\ \A c \in Consumers :
              IsClean(c) =>
                 /\ consumer[c].kind = "useValue" =>
                        consumer[c].out = Reduced(s0, Processed)
                 /\ consumer[c].kind = "useState" =>
                        At(consumer[c].out.items, 1) = Reduced(s0, Processed)

\* two actions were dispatched whose order matters, and a useValue reader shows the result
C1_Witness ==
    /\ provider.mounted
    /\ s0 = Num(2)
    /\ history = <<"reset", "inc">>
    /\ provider.queue = <<>>
    /\ provider.state = Num(1)
    /\ IsClean("reader")
    /\ consumer["reader"].kind = "useValue"
    /\ consumer["reader"].out = Num(1)

\* C2: a render of the Provider notifies a useSelectedValue(selector) or
\* Selector consumer only if selector(new state) differs from selector(old
\* state), and notifies a useState consumer whenever the state changed.
C2_NotifiedOnlyWhenSliceChanges ==
    [][(provider.mounted /\ provider'.mounted) =>
         \A c \in Consumers :
            (IsClean(c) /\ consumer'[c].status = "mounted") =>
               /\ (consumer[c].kind \in {"useSelectedValue", "Selector"} /\ consumer'[c].dirty) =>
                     selector(consumer[c].sel, provider'.state)
                        # selector(consumer[c].sel, provider.state)
               /\ (consumer[c].kind = "useState" /\ provider'.state # provider.state) =>
                     consumer'[c].dirty]_vars

\* the state went from 2 to 0, the parity reader was left alone, the useState consumer was notified
C2_Witness ==
    /\ provider.mounted
    /\ provider.state = Num(0)
    /\ IsClean("reader")
    /\ consumer["reader"].kind = "useSelectedValue"
    /\ consumer["reader"].sel = "parity"
    /\ consumer["reader"].last = "spared"
    /\ IsMounted("controller")
    /\ consumer["controller"].dirty
    /\ At(consumer["controller"].values.items, 1) = Num(2)

\* the message a MissingStateContextError for the context must carry
ExpectedMessage(name) ==
    "Attempt to read value from state context '"
    \o (IF name = Undefined THEN "undefined" ELSE name.s)
    \o "', make sure that the context provider is being used and is mounted in the component tree."

\* C3: a read through any hook while no Provider is mounted fails with a
\* MissingStateContextError naming the displayName, returns no value, and
\* changes nothing; a read returns a value only under a mounted Provider.
C3_ReadWithoutProviderThrows ==
    [][\A c \in Consumers :
          /\ (~provider.mounted /\ consumer'[c] # consumer[c]) =>
                /\ consumer'[c].status = "failed"
                /\ consumer'[c].err.t = "MissingStateContextError"
                /\ consumer'[c].err.message = ExpectedMessage(displayName)
                /\ consumer'[c].values = Undefined
                /\ consumer'[c].out = Undefined
                /\ consumer'[c].children = Undefined
                /\ UNCHANGED <<defaultValue, displayName, provider, prop, mounts, s0, history>>
          /\ (consumer'[c].status = "mounted" /\ ~IsMounted(c)) => provider.mounted]_vars

\* a read failed while the context was named Counter
C3_Witness ==
    /\ ~provider.mounted
    /\ displayName = Str("Counter")
    /\ consumer["reader"].status = "failed"
    /\ consumer["reader"].err.message = ExpectedMessage(Str("Counter"))

\* C4: under a mounted Provider all hooks read one (state, dispatch) pair:
\* useState() is [useValue(), useDispatch()], every consumer that is up to
\* date shows that pair, Consumer calls children with it, and every dispatch
\* handed out is the Provider's.
C4_OnePairing ==
    provider.mounted =>
        LET value == ContextValue(provider) IN
        /\ useStateSelector(value) = Arr(<<useValueSelector(value), useDispatchSelector(value)>>)
        /\ useValueSelector(value) = provider.state
        /\ useDispatchSelector(value) = provider.dispatch
        /\ provider.dispatch.t = "function"
        /\ \A c \in Consumers :
              /\ IsClean(c) =>
                    /\ consumer[c].kind = "useState" =>
                          consumer[c].out = Arr(<<provider.state, provider.dispatch>>)
                    /\ consumer[c].kind = "useValue" => consumer[c].out = provider.state
                    /\ consumer[c].kind = "Consumer" =>
                          consumer[c].children = Arr(<<provider.state, provider.dispatch>>)
              /\ (IsMounted(c) /\ consumer[c].kind = "useDispatch") =>
                    consumer[c].out = provider.dispatch
              /\ (IsMounted(c) /\ consumer[c].kind \in {"useState", "Consumer"}) =>
                    At(consumer[c].out.items, 2) = provider.dispatch
        /\ \A c, d \in Consumers :
              (IsClean(c) /\ IsClean(d) /\ consumer[c].kind = "useState") =>
                 /\ consumer[d].kind = "useValue" =>
                       At(consumer[c].out.items, 1) = consumer[d].out
                 /\ consumer[d].kind = "useDispatch" =>
                       At(consumer[c].out.items, 2) = consumer[d].out
                 /\ consumer[d].kind = "Consumer" =>
                       consumer[d].children = consumer[c].out

\* after a dispatch, a Consumer component and a useState consumer both rendered again
C4_Witness ==
    /\ provider.mounted
    /\ provider.state # s0
    /\ IsClean("reader")
    /\ consumer["reader"].kind = "Consumer"
    /\ consumer["reader"].last = "rerendered"
    /\ IsClean("controller")
    /\ consumer["controller"].last = "rerendered"

\* C5: whenever a Provider mounts, its state is the value prop unless that is
\* undefined or null, and defaultValue then (0 is kept); nothing is queued,
\* and nothing of an earlier mount is left: an unmount destroys the state.
C5_MountStartsFromValueOrDefault ==
    [][/\ (~provider.mounted /\ provider'.mounted) =>
             /\ provider'.state = (IF prop' = Undefined \/ prop' = Null
                                   THEN defaultValue
                                   ELSE prop')
             /\ provider'.queue = <<>>
             /\ s0' = provider'.state
             /\ history' = <<>>
       /\ (provider.mounted /\ ~provider'.mounted) =>
             /\ provider' = NoHook
             /\ \A c \in Consumers : ~(consumer'[c].status = "mounted")]_vars

\* the second mount, with value 0 and defaultValue 1, holds 0
C5_Witness ==
    /\ provider.mounted
    /\ mounts = 2
    /\ prop = Num(0)
    /\ defaultValue = Num(1)
    /\ history = <<>>
    /\ provider.state = Num(0)

\* what a hook with a selector returns for the Provider's current state
SelectedNow(kind, sel) ==
    LET hook == HookOf(kind) IN
    IF hook \in {"useSelectedState", "useSelectedStates"}
    THEN Arr(<<selector(sel, provider.state), provider.dispatch>>)
    ELSE selector(sel, provider.state)

\* C6: a consumer of useSelectedValue, useSelectedValues or useSelectedState
\* (or Selector) that has no re-render pending shows selector(current state)
\* (with dispatch for useSelectedState); one that shows a slice that differs
\* from the current one has its re-render pending.
C6_SelectedSliceIsCurrent ==
    provider.mounted =>
        \A c \in Consumers :
           (/\ IsMounted(c)
            /\ HookOf(consumer[c].kind) \in {"useSelectedValue", "useSelectedValues", "useSelectedState"}) =>
              /\ ~consumer[c].dirty => consumer[c].out = SelectedNow(consumer[c].kind, consumer[c].sel)
              /\ consumer[c].out # SelectedNow(consumer[c].kind, consumer[c].sel) => consumer[c].dirty

\* a useSelectedState consumer rendered again and shows the new half of the state
C6_Witness ==
    /\ provider.mounted
    /\ provider.queue = <<>>
    /\ s0 = Num(1)
    /\ provider.state = Num(2)
    /\ \A c \in Consumers : ~consumer[c].dirty
    /\ IsMounted("reader")
    /\ consumer["reader"].kind = "useSelectedState"
    /\ consumer["reader"].sel = "half"
    /\ consumer["reader"].last = "rerendered"
    /\ consumer["reader"].out = Arr(<<Num(1), provider.dispatch>>)

\* C7: useSelectedStates(selector) returns [selector(state), dispatch]: the
\* selected array comes back with its length, order and values, the empty
\* array included, the second component is the Provider's dispatch, and
\* Selectors calls children with these two.
C7_SelectedStatesRoundTrip ==
    provider.mounted =>
        \A c \in Consumers :
           (IsMounted(c) /\ HookOf(consumer[c].kind) = "useSelectedStates") =>
              /\ At(consumer[c].out.items, 2) = provider.dispatch
              /\ Len(consumer[c].out.items) = 2
              /\ \E state \in States : At(consumer[c].out.items, 1) = selector(consumer[c].sel, state)
              /\ ~consumer[c].dirty =>
                    consumer[c].out = Arr(<<selector(consumer[c].sel, provider.state), provider.dispatch>>)
              /\ consumer[c].kind = "Selectors" =>
                    consumer[c].children = Arr(<<At(consumer[c].out.items, 1), At(consumer[c].out.items, 2)>>)

\* Selectors rendered again after the state went to 0, whose selected array is empty
C7_Witness ==
    /\ provider.mounted
    /\ provider.state = Num(0)
    /\ IsClean("reader")
    /\ consumer["reader"].kind = "Selectors"
    /\ consumer["reader"].sel = "bits"
    /\ consumer["reader"].last = "rerendered"
    /\ consumer["reader"].children = Arr(<<Arr(<<>>), provider.dispatch>>)

\* C8: displayName reads back what was last set, an error thrown afterwards
\* carries it, and setting it changes neither the state nor dispatch.
C8_DisplayNamePassThrough ==
    /\ [](GetDisplayName = setArg)
    /\ [][/\ (setArg' # setArg \/ displayName' # displayName) =>
                UNCHANGED <<defaultValue, provider, prop, mounts, s0, history, consumer>>
          /\ \A c \in Consumers :
                (consumer'[c].status = "failed" /\ consumer'[c] # consumer[c]) =>
                   consumer'[c].err.message = ExpectedMessage(setArg)]_vars

\* the name was set under a mounted Provider whose reader had failed under that name before
C8_Witness ==
    /\ setArg = Str("Counter")
    /\ GetDisplayName = Str("Counter")
    /\ provider.mounted
    /\ provider.state # s0
    /\ consumer["reader"].status = "failed"
    /\ consumer["reader"].err.message = ExpectedMessage(Str("Counter"))

\* C9: a render of the mounted Provider with another value prop leaves the
\* state to the dispatched actions alone: it is the state before, taken
\* through the queued actions if there are any, and dispatch stays.
C9_ValuePropOnlyInitial ==
    [][(provider.mounted /\ provider'.mounted /\ prop' # prop) =>
          /\ provider'.state = Reduced(provider.state, provider.queue)
          /\ provider.queue = <<>> => provider'.state = provider.state
          /\ provider'.dispatch = provider.dispatch]_vars

\* the Provider now gets value 2 and still holds the 0 it mounted with
C9_Witness ==
    /\ provider.mounted
    /\ prop = Num(2)
    /\ s0 = Num(0)
    /\ history = <<>>
    /\ provider.state = Num(0)

====
